---------------------------- MODULE Spec2Model ----------------------------
(***************************************************************************)
(* A model of the escpos package: the Printer session (its recorded font   *)
(* size and style toggles, and the writes it sends to its io.Writer), the  *)
(* little-endian integer codec intLowHigh and the raster transfer Raster.  *)
(*                                                                         *)
(* Bytes are the integers 0..255; a byte string ([]byte, or a Go string    *)
(* that is written to the sink) is a sequence of bytes.                    *)
(***************************************************************************)
EXTENDS Integers, Sequences, FiniteSets, TLC

VARIABLES
    p,       \* the Printer's fields: width, height and the six toggles
    w,       \* the sink p.w: the writes it received during the last operation
             \* (under SpecConc: since the two callers started), oldest first
    by,      \* SpecConc only: by[i] is the caller that issued write w[i]
    dev,     \* the printer at the far end of the sink: the settings it holds
             \* after applying every frame written so far
    call,    \* the last operation invoked, with its arguments
    ret,     \* what that operation returned: "ok", "err" (a non-nil error),
             \* "panic" (a Go run-time panic) or "none" (nothing called yet)
    outp,    \* the byte slice the last intLowHigh call returned
    logged,  \* the diagnostics the last operation sent to log.Println
    old,     \* the Printer's fields when the last operation was invoked
    ops,     \* the number of operations invoked on the session so far
    th,      \* SpecConc: each caller's operation and position in it;
             \* SpecLoop: the caller's position in Raster and its row cursor l
    sink     \* the io.Writer behind p.w: left is the number of writes it
             \* still accepts before every Write on it returns an error
             \* (Unbroken: it never fails), failedAt the index in w of the
             \* first write of the last operation that it failed (0: none)

vars == <<p, w, by, dev, call, ret, outp, logged, old, ops, th, sink>>

---------------------------------------------------------------------------
(* Go integer arithmetic on int (64 bits; no value here comes near 2^63).  *)

\* byte(x): the conversion of an int to uint8 keeps the low 8 bits.
Byte(x) == x % 256

\* x >> k on a signed int: an arithmetic shift, i.e. floor(x / 2^k).
Shr(x, k) == x \div (2 ^ k)

\* x << k on an int.
Shl(x, k) == x * (2 ^ k)

\* a % b in Go truncates toward zero.
GoRem(a, b) == IF a >= 0 THEN a % b ELSE 0 - ((0 - a) % b)

Min(a, b) == IF a < b THEN a ELSE b

\* The bitwise or of two bytes, bit by bit.
RECURSIVE BitOr(_, _)
BitOr(a, b) ==
    IF a = 0 THEN b
    ELSE IF b = 0 THEN a
    ELSE (IF a % 2 = 1 \/ b % 2 = 1 THEN 1 ELSE 0) + 2 * BitOr(a \div 2, b \div 2)

---------------------------------------------------------------------------
(* raster.go: intLowHigh                                                   *)

gs8lMaxY == 1662

\* The diagnostics of one intLowHigh call (lines 20-25).
\* maxInput := (256 << (uint((outBytes * 8)) - 1)), and the test
\* inpNumber > maxInput of line 23.  The shift count is a uint: for
\* outBytes <= 0 it wraps to a count of 64 or more and maxInput is 0, as it
\* is for every count of 56 or more; a count of 55 gives the least int.
\* The model's integers stay below 2^31, so a maxInput of 2^31 or more
\* (count >= 23) is above every inpNumber of the model.
IntLowHighLog(inpNumber, outBytes) ==
    LET count == outBytes * 8 - 1
        exceeds == IF count < 0 \/ count >= 56 THEN inpNumber > 0
                   ELSE IF count = 55 THEN TRUE
                   ELSE IF count >= 23 THEN FALSE
                   ELSE inpNumber > Shl(256, count)
    IN  (IF outBytes < 1 \/ outBytes > 4 THEN <<"Can only output 1-4 bytes">> ELSE <<>>)
        \o (IF inpNumber < 0 \/ exceeds THEN <<"Number too large">> ELSE <<>>)

\* The loop of lines 27-31, from iteration i on.  inpNumber / 256
\* truncates toward zero.
RECURSIVE IntLowHighLoop(_, _, _)
IntLowHighLoop(inpNumber, outBytes, i) ==
    LET quo == IF inpNumber >= 0 THEN inpNumber \div 256
               ELSE 0 - ((0 - inpNumber) \div 256)
    IN  IF i < outBytes
        THEN <<Byte(GoRem(inpNumber, 256))>> \o IntLowHighLoop(quo, outBytes, i + 1)
        ELSE <<>>

intLowHighNoDivide(inpNumber, outBytes) ==
    [i \in 1..(IF outBytes > 0 THEN outBytes ELSE 0) |-> Byte(GoRem(inpNumber, 256))]

intLowHigh(inpNumber, outBytes) == IntLowHighLoop(inpNumber, outBytes, 0)

---------------------------------------------------------------------------
(* raster.go: Raster                                                       *)

\* The 17-byte GS 8 L header of one chunk (lines 58-68).
ChunkHeaderHighLow(width, lines, lineWidth) ==
    LET f112P == 10 + lines * lineWidth
    IN  <<29, 56, 76,
          Byte(f112P), Byte(Shr(f112P, 8)), Byte(Shr(f112P, 16)), Byte(Shr(f112P, 24)),
          48, 112, 48,
          1, 1,
          49,
          Byte(width), Byte(Shr(width, 8)),
          Byte(Shr(lines, 8)), Byte(lines)>>

ChunkHeader(width, lines, lineWidth) ==
    LET f112P == 10 + lines * lineWidth
    IN  <<29, 56, 76,
          Byte(f112P), Byte(Shr(f112P, 8)), Byte(Shr(f112P, 16)), Byte(Shr(f112P, 24)),
          48, 112, 48,
          1, 1,
          49,
          Byte(width), Byte(Shr(width, 8)),
          Byte(lines), Byte(Shr(lines, 8))>>

\* The GS ( L flush frame (lines 79-82).
FlushFrame == <<29, 40, 76, 2, 0, 48, 50>>

\* lines := gs8lMaxY; if lines > height-l { lines = height - l }  (53-56)
ChunkLinesUncapped(height, l) == height - l

ChunkLines(height, l) == IF gs8lMaxY > height - l THEN height - l ELSE gs8lMaxY

\* imgBw[lo:hi] is legal when 0 <= lo <= hi <= cap(imgBw); the buffers of
\* the model have cap = len.  Otherwise the slice expression panics.
SliceOk(buf, lo, hi) == 0 <= lo /\ lo <= hi /\ hi <= Len(buf)

SliceFromZero(buf, lo, hi) == SubSeq(buf, 1, hi - lo)

Slice(buf, lo, hi) == SubSeq(buf, lo + 1, hi)

\* The writes of the loop of lines 52-85 from row l on, and whether the
\* loop ended in a panic (after the header of the failing chunk was sent).
RECURSIVE GraphicsLoop(_, _, _, _, _)
GraphicsLoop(l, width, height, lineWidth, imgBw) ==
    IF ~(l < height)
    THEN [writes |-> <<>>, panic |-> FALSE]
    ELSE LET lines == ChunkLines(height, l)
             hdr == ChunkHeader(width, lines, lineWidth)
             lo == l * lineWidth
             hi == (l + lines) * lineWidth
         IN  IF ~SliceOk(imgBw, lo, hi)
             THEN [writes |-> <<hdr>>, panic |-> TRUE]
             ELSE LET rest == GraphicsLoop(l + lines, width, height, lineWidth, imgBw)
                  IN  [writes |-> <<hdr, Slice(imgBw, lo, hi), FlushFrame>> \o rest.writes,
                       panic |-> rest.panic]

\* The single write of the "bitImage" branch (lines 39-49).
BitImageWidthInDots(width, height, imgBw) ==
    <<29, 118, 48>> \o <<0>> \o intLowHigh(width, 2) \o intLowHigh(height, 2) \o imgBw

BitImage(width, height, imgBw) ==
    <<29, 118, 48>> \o <<0>>
        \o intLowHigh(Shr(width + 7, 3), 2)
        \o intLowHigh(height, 2)
        \o imgBw

\* What the two intLowHigh calls of the "bitImage" branch log (lines 44-45).
BitImageLog(width, height) ==
    IntLowHighLog(Shr(width + 7, 3), 2) \o IntLowHighLog(height, 2)

\* Everything one Raster call writes and logs, and whether it panicked.
\* The graphics branch builds its header bytes itself and logs nothing.
RasterWrites(width, height, lineWidth, imgBw, printingType) ==
    IF printingType = "bitImage"
    THEN [writes |-> <<BitImage(width, height, imgBw)>>, panic |-> FALSE,
          log |-> BitImageLog(width, height)]
    ELSE IF printingType = "graphics"
    THEN LET g == GraphicsLoop(0, width, height, lineWidth, imgBw)
         IN  [writes |-> g.writes, panic |-> g.panic, log |-> <<>>]
    ELSE [writes |-> <<>>, panic |-> FALSE, log |-> <<>>]

---------------------------------------------------------------------------
(* fmt and strconv                                                         *)

\* fmt.Sprintf("%c", v): the UTF-8 encoding of the code point v.  A value
\* that is no valid code point (negative, a surrogate, above 0x10FFFF) is
\* formatted as U+FFFD.
FmtCAsByte(v) == <<v % 256>>

FmtC(v) ==
    IF v < 0 \/ v > 1114111 \/ (v >= 55296 /\ v <= 57343) THEN <<239, 191, 189>>
    ELSE IF v < 128 THEN <<v>>
    ELSE IF v < 2048 THEN <<192 + (v \div 64), 128 + (v % 64)>>
    ELSE IF v < 65536
    THEN <<224 + (v \div 4096), 128 + ((v \div 64) % 64), 128 + (v % 64)>>
    ELSE <<240 + (v \div 262144), 128 + ((v \div 4096) % 64),
           128 + ((v \div 64) % 64), 128 + (v % 64)>>

\* A numeric parameter is a string of characters, one per element.
DigitValue(c) ==
    CASE c = "0" -> 0 [] c = "1" -> 1 [] c = "2" -> 2 [] c = "3" -> 3
      [] c = "4" -> 4 [] c = "5" -> 5 [] c = "6" -> 6 [] c = "7" -> 7
      [] c = "8" -> 8 [] c = "9" -> 9 [] OTHER -> 0 - 1

RECURSIVE DecimalValue(_)
DecimalValue(str) ==
    IF str = <<>> THEN 0
    ELSE 10 * DecimalValue(SubSeq(str, 1, Len(str) - 1)) + DigitValue(str[Len(str)])

AtoiDigits(str) ==
    IF str # <<>> /\ (str[1] = "+" \/ str[1] = "-") THEN Tail(str) ELSE str

\* strconv.Atoi(str): an optional sign, then one or more decimal digits;
\* anything else is a *NumError.  (The model's numerals fit an int.)
AtoiOk(str) ==
    /\ AtoiDigits(str) # <<>>
    /\ \A i \in 1..Len(AtoiDigits(str)) : DigitValue(AtoiDigits(str)[i]) >= 0

AtoiAlwaysOk(str) == TRUE

AtoiValue(str) ==
    IF str # <<>> /\ str[1] = "-" THEN 0 - DecimalValue(AtoiDigits(str))
    ELSE DecimalValue(AtoiDigits(str))

\* strconv.Itoa / the %v verb on a non-negative int: its decimal digits in
\* ASCII.
RECURSIVE Itoa(_)
Itoa(n) == IF n < 10 THEN <<48 + n>> ELSE Itoa(n \div 10) \o <<48 + (n % 10)>>

\* The strings strs joined, sep between them: with a sep of "", a string
\* from its characters.
RECURSIVE JoinWith(_, _)
JoinWith(strs, sep) ==
    IF strs = <<>> THEN ""
    ELSE IF Len(strs) = 1 THEN strs[1]
    ELSE strs[1] \o sep \o JoinWith(Tail(strs), sep)

\* base64.StdEncoding.DecodeString (line 536).  Line breaks in the input
\* are skipped.  What is left must be groups of four characters of the
\* alphabet, the last of which may end in one or two '='; each group gives
\* three bytes, a padded one two or one.  Bits of a padded group beyond its
\* bytes are not checked.
B64Value(c) ==
    LET alphabet ==
            <<"A", "B", "C", "D", "E", "F", "G", "H", "I", "J", "K", "L", "M",
              "N", "O", "P", "Q", "R", "S", "T", "U", "V", "W", "X", "Y", "Z",
              "a", "b", "c", "d", "e", "f", "g", "h", "i", "j", "k", "l", "m",
              "n", "o", "p", "q", "r", "s", "t", "u", "v", "w", "x", "y", "z",
              "0", "1", "2", "3", "4", "5", "6", "7", "8", "9", "+", "/">>
    IN  IF \E i \in 1..64 : alphabet[i] = c
        THEN (CHOOSE i \in 1..64 : alphabet[i] = c) - 1
        ELSE 0 - 1

\* The number of '=' a last group ends in, or -1 when the group is none.
B64Padding(g) ==
    IF B64Value(g[1]) < 0 \/ B64Value(g[2]) < 0 THEN 0 - 1
    ELSE IF g[3] = "=" THEN (IF g[4] = "=" THEN 2 ELSE 0 - 1)
    ELSE IF B64Value(g[3]) < 0 THEN 0 - 1
    ELSE IF g[4] = "=" THEN 1
    ELSE IF B64Value(g[4]) < 0 THEN 0 - 1
    ELSE 0

B64Ok(t) ==
    /\ Len(t) % 4 = 0
    /\ \A k \in 1..(Len(t) \div 4) :
           LET pad == B64Padding(SubSeq(t, 4 * k - 3, 4 * k))
           IN  pad = 0 \/ (pad > 0 /\ k = Len(t) \div 4)

B64Group(g) ==
    LET pad == B64Padding(g)
        v1 == B64Value(g[1])
        v2 == B64Value(g[2])
        v3 == IF pad = 2 THEN 0 ELSE B64Value(g[3])
        v4 == IF pad >= 1 THEN 0 ELSE B64Value(g[4])
    IN  SubSeq(<<4 * v1 + (v2 \div 16), 16 * (v2 % 16) + (v3 \div 4), 64 * (v3 % 4) + v4>>,
               1, 3 - pad)

\* The bytes of a well-formed t.
RECURSIVE B64Decode(_)
B64Decode(t) ==
    IF Len(t) < 4 THEN <<>>
    ELSE B64Group(SubSeq(t, 1, 4)) \o B64Decode(SubSeq(t, 5, Len(t)))

\* strings.ToUpper on a one-character string: a lower-case ASCII letter
\* becomes its upper-case letter, any other ASCII character is kept.
ToUpper(c) ==
    LET lower == <<"a", "b", "c", "d", "e", "f", "g", "h", "i", "j", "k", "l", "m",
                   "n", "o", "p", "q", "r", "s", "t", "u", "v", "w", "x", "y", "z">>
        upper == <<"A", "B", "C", "D", "E", "F", "G", "H", "I", "J", "K", "L", "M",
                   "N", "O", "P", "Q", "R", "S", "T", "U", "V", "W", "X", "Y", "Z">>
    IN  IF \E i \in 1..26 : lower[i] = c
        THEN upper[CHOOSE i \in 1..26 : lower[i] = c]
        ELSE c

---------------------------------------------------------------------------
(* The Printer and the effect of a method on it.  A method is an operator  *)
(* from the Printer's fields s to an effect: the fields afterwards, the    *)
(* writes it sent to the sink in order, its log lines, and how it ended    *)
(* ("ok", "err" for a returned error, "panic").                            *)

\* NewPrinter (lines 60-72): width and height 1, every toggle the zero byte.
NewPrinter ==
    [width |-> 1, height |-> 1, underline |-> 0, emphasize |-> 0,
     upsidedown |-> 0, rotate |-> 0, reverse |-> 0, smooth |-> 0]

Ok(s) == [p |-> s, writes |-> <<>>, log |-> <<>>, ret |-> "ok"]

\* A statement sequence: F runs on what e left unless e already returned
\* an error or panicked.
Then(e, F(_)) ==
    IF e.ret # "ok" THEN e
    ELSE LET n == F(e.p)
         IN  [p |-> n.p, writes |-> e.writes \o n.writes,
              log |-> e.log \o n.log, ret |-> n.ret]

\* if cond { F }
When(cond, e, F(_)) == IF cond THEN Then(e, F) ELSE e

\* return err
ReturnErr(s) == [p |-> s, writes |-> <<>>, log |-> <<>>, ret |-> "err"]
Panic(s) == [p |-> s, writes |-> <<>>, log |-> <<>>, ret |-> "panic"]
LogLine(s, msg) == [p |-> s, writes |-> <<>>, log |-> <<msg>>, ret |-> "ok"]

\* Write (lines 89-91) and every direct p.w.Write(buf).
Write(s, buf) == [p |-> s, writes |-> <<buf>>, log |-> <<>>, ret |-> "ok"]

\* Reset (lines 75-86).
ResetKeepsFont(s) ==
    Ok([NewPrinter EXCEPT !.width = s.width, !.height = s.height])

Reset(s) ==
    Ok([s EXCEPT !.width = 1, !.height = 1,
                 !.underline = 0, !.emphasize = 0, !.upsidedown = 0, !.rotate = 0,
                 !.reverse = 0, !.smooth = 0])

\* Init (lines 100-103).
Init(s) == Then(Reset(s), LAMBDA q : Write(q, <<27, 64>>))

End(s) == Write(s, <<250>>)
Cut(s) == Write(s, <<29, 86, 65, 48>>)
Cash(s) == Write(s, <<27, 112, 0, 10, 255>>)
Linefeed(s) == Write(s, <<10>>)
Pulse(s) == Write(s, <<27, 112, 2>>)

\* FormfeedN (lines 127-129) and Formfeed (132-134).
FormfeedN(s, n) == Write(s, <<27, 100>> \o FmtC(n))
Formfeed(s) == FormfeedN(s, 1)

\* SetFont (lines 137-154).
SetFont(s, font) ==
    LET f == CASE font = "A" -> 0 [] font = "B" -> 1 [] font = "C" -> 2 [] OTHER -> 0
        e == IF font \in {"A", "B", "C"} THEN Ok(s) ELSE LogLine(s, "Invalid font")
    IN  Then(e, LAMBDA q : Write(q, <<27, 77>> \o FmtC(f)))

\* SendFontSize (lines 157-160): ((p.width-1)<<4)|(p.height-1) in uint8.
FontSizeByteNoOffset(s) == BitOr(Byte(Shl(Byte(s.width), 4)), Byte(s.height))

FontSizeByte(s) == BitOr(Byte(Shl(Byte(s.width - 1), 4)), Byte(s.height - 1))
SendFontSize(s) == Write(s, <<29, 33>> \o FmtC(FontSizeByte(s)))

\* SetFontSize (lines 163-170).
SetFontSizeUnchecked(s, width, height) ==
    SendFontSize([s EXCEPT !.width = width, !.height = height])

SetFontSizeNoUpperLimit(s, width, height) ==
    IF width > 0 /\ height > 0
    THEN SendFontSize([s EXCEPT !.width = width, !.height = height])
    ELSE LogLine(s, "Invalid font size passed")

SetFontSize(s, width, height) ==
    IF width > 0 /\ height > 0 /\ width <= 8 /\ height <= 8
    THEN SendFontSize([s EXCEPT !.width = width, !.height = height])
    ELSE LogLine(s, "Invalid font size passed")

\* SendUnderline .. SendSmooth (lines 173-202).
SendUnderline(s) == Write(s, <<27, 45>> \o FmtC(s.underline))
SendEmphasize(s) == Write(s, <<27, 71>> \o FmtC(s.emphasize))
SendUpsidedown(s) == Write(s, <<27, 123>> \o FmtC(s.upsidedown))
SendRotate(s) == Write(s, <<27, 82>> \o FmtC(s.rotate))
SendReverse(s) == Write(s, <<29, 66>> \o FmtC(s.reverse))
SendSmooth(s) == Write(s, <<29, 98>> \o FmtC(s.smooth))

\* SendMoveX, SendMoveY (lines 205-212); x and y are uint16.
SendMoveX(s, x) == Write(s, <<27, 36, Byte(x % 256), Byte(x \div 256)>>)
SendMoveY(s, y) == Write(s, <<29, 36, Byte(y % 256), Byte(y \div 256)>>)

\* SetUnderline .. SetSmooth (lines 215-248).
SetUnderlineFlips(s, v) == SendUnderline([s EXCEPT !.underline = (s.underline + v) % 2])

SetUnderline(s, v) == SendUnderline([s EXCEPT !.underline = v])
SetEmphasize(s, u) == SendEmphasize([s EXCEPT !.emphasize = u])
SetUpsidedown(s, v) == SendUpsidedown([s EXCEPT !.upsidedown = v])
SetRotate(s, v) == SendRotate([s EXCEPT !.rotate = v])
SetReverse(s, v) == SendReverse([s EXCEPT !.reverse = v])
SetSmooth(s, v) == SendSmooth([s EXCEPT !.smooth = v])

\* SetAlign (lines 257-271).
SetAlign(s, align) ==
    LET a == CASE align = "left" -> 0 [] align = "center" -> 1
               [] align = "right" -> 2 [] OTHER -> 0
        e == IF align \in {"left", "center", "right"} THEN Ok(s)
             ELSE LogLine(s, "Invalid alignment")
    IN  Then(e, LAMBDA q : Write(q, <<27, 97>> \o FmtC(a)))

\* SetLang (lines 274-304).
Languages == <<"en", "fr", "de", "uk", "da", "sv", "it", "es", "ja", "no">>

SetLangSkipsUnknown(s, lang) ==
    LET known == {i \in 1..Len(Languages) : Languages[i] = lang}
    IN  IF known = {} THEN LogLine(s, "Invalid language")
        ELSE Write(s, <<27, 82>> \o FmtC((CHOOSE i \in known : TRUE) - 1))

SetLang(s, lang) ==
    LET known == {i \in 1..Len(Languages) : Languages[i] = lang}
        l == IF known = {} THEN 0 ELSE (CHOOSE i \in known : TRUE) - 1
        e == IF known = {} THEN LogLine(s, "Invalid language") ELSE Ok(s)
    IN  Then(e, LAMBDA q : Write(q, <<27, 82>> \o FmtC(l)))

\* A call statement whose result is not read: a returned error is lost, a
\* panic is not.
Drop(e) == IF e.ret = "err" THEN [e EXCEPT !.ret = "ok"] ELSE e

\* rasterConv.Print(img, p) (line 639): the converter is the imported
\* package github.com/cloudinn/escpos/raster, whose code is not part of
\* this repository.  What it sends to the printer is one opaque write.
ConverterWrite == <<0 - 1>>

\* PrintImage (lines 619-641).  load is how opening and decoding the file
\* ends: "fail" (os.Open or image.Decode returns an error, which PrintImage
\* returns) or the format of the decoded image, one of those image.Decode
\* knows here (the imports of lines 10-12).
PrintImage(s, load) ==
    IF load \notin {"png", "jpeg", "gif"} THEN ReturnErr(s)
    ELSE LET e1 == LogLine(s, "Loaded image, format: " \o load)
             e2 == Then(e1, LAMBDA q : SetAlign(q, "center"))
         IN  Then(e2, LAMBDA q : Write(q, ConverterWrite))

\* PrintTextImage (lines 677-750).  render is how drawing the text ends:
\* "fail" (reading or parsing the font, drawing, creating, encoding or
\* flushing the file returns an error, which PrintTextImage returns), "ok"
\* (the PNG file is written and PrintImage loads it) or "noimage" (the file
\* is written but PrintImage cannot load it; its error is not read).
PrintTextImage(s, render) ==
    IF render \notin {"ok", "noimage"} THEN ReturnErr(s)
    ELSE Drop(PrintImage(s, IF render = "ok" THEN "png" ELSE "fail"))

\* WriteString (lines 94-97): the text as an image, whose error is not read,
\* then an empty write, whose result is returned.
WriteString(s, render) ==
    Then(Drop(PrintTextImage(s, render)), LAMBDA q : Write(q, <<>>))

Has(params, k) == k \in DOMAIN params
IsTrue(params, k) == Has(params, k) /\ (params[k] = "true" \/ params[k] = "1")

\* Text (lines 307-404).  text is "" or not; render is how the rendering of
\* a non-empty text ends.
Text(s, params, text, render) ==
    LET e1 == When(Has(params, "align"), Ok(s), LAMBDA q : SetAlign(q, params["align"]))
        e2 == When(Has(params, "lang"), e1, LAMBDA q : SetLang(q, params["lang"]))
        e3 == When(IsTrue(params, "smooth"), e2, LAMBDA q : SetSmooth(q, 1))
        e4 == When(IsTrue(params, "em"), e3, LAMBDA q : SetEmphasize(q, 1))
        e5 == When(IsTrue(params, "ul"), e4, LAMBDA q : SetUnderline(q, 1))
        e6 == When(IsTrue(params, "reverse"), e5, LAMBDA q : SetReverse(q, 1))
        e7 == When(IsTrue(params, "rotate"), e6, LAMBDA q : SetRotate(q, 1))
        e8 == When(Has(params, "font"), e7, LAMBDA q :
                   IF Len(params["font"]) < 6 THEN Panic(q)
                   ELSE SetFont(q, ToUpper(params["font"][6])))
        e9 == When(IsTrue(params, "dw"), e8, LAMBDA q : SetFontSize(q, 2, q.height))
        e10 == When(IsTrue(params, "dh"), e9, LAMBDA q : SetFontSize(q, q.width, 2))
        e11 == When(Has(params, "width"), e10, LAMBDA q :
                    IF AtoiOk(params["width"])
                    THEN SetFontSize(q, Byte(AtoiValue(params["width"])), q.height)
                    ELSE ReturnErr(q))
        e12 == When(Has(params, "height"), e11, LAMBDA q :
                    IF AtoiOk(params["height"])
                    THEN SetFontSize(q, q.width, Byte(AtoiValue(params["height"])))
                    ELSE ReturnErr(q))
        e13 == When(Has(params, "x"), e12, LAMBDA q :
                    IF AtoiOk(params["x"])
                    THEN SendMoveX(q, AtoiValue(params["x"]) % 65536)
                    ELSE ReturnErr(q))
        e14 == When(Has(params, "y"), e13, LAMBDA q :
                    IF AtoiOk(params["y"])
                    THEN SendMoveY(q, AtoiValue(params["y"]) % 65536)
                    ELSE ReturnErr(q))
    IN  When(text # "", e14, LAMBDA q : WriteString(q, render))

\* The state refresh of Feed (lines 435-442).
Refresh(s) ==
    LET a == SendEmphasize(s)
        b == Then(a, SendRotate)
        c == Then(b, SendSmooth)
        d == Then(c, SendReverse)
        e == Then(d, SendUnderline)
        f == Then(e, SendUpsidedown)
        g == Then(f, SendFontSize)
    IN  Then(g, SendUnderline)

\* Feed (lines 407-445).
FeedNoReset(s, params) ==
    LET e1 == When(Has(params, "line"), Ok(s), LAMBDA q :
                   IF AtoiOk(params["line"]) THEN FormfeedN(q, AtoiValue(params["line"]))
                   ELSE ReturnErr(q))
        e2 == When(Has(params, "unit"), e1, LAMBDA q :
                   IF AtoiOk(params["unit"])
                   THEN SendMoveY(q, AtoiValue(params["unit"]) % 65536)
                   ELSE ReturnErr(q))
        e3 == Then(e2, Linefeed)
    IN  Then(e3, Refresh)

Feed(s, params) ==
    LET e1 == When(Has(params, "line"), Ok(s), LAMBDA q :
                   IF AtoiOk(params["line"]) THEN FormfeedN(q, AtoiValue(params["line"]))
                   ELSE ReturnErr(q))
        e2 == When(Has(params, "unit"), e1, LAMBDA q :
                   IF AtoiOk(params["unit"])
                   THEN SendMoveY(q, AtoiValue(params["unit"]) % 65536)
                   ELSE ReturnErr(q))
        e3 == Then(e2, Linefeed)
        e4 == Then(e3, Reset)
    IN  Then(e4, Refresh)

\* FeedAndCut (lines 449-455).
FeedAndCut(s, params) ==
    Then(When(Has(params, "type") /\ params["type"] = "feed", Ok(s), Formfeed), Cut)

\* Barcode (lines 458-490); barcode is a byte string.
BarcodeCode(format) ==
    CASE format = 0 -> <<0>> [] format = 1 -> <<1>> [] format = 2 -> <<2>>
      [] format = 3 -> <<3>> [] format = 4 -> <<4>> [] format = 73 -> <<73>>
      [] OTHER -> <<>>

Barcode(s, barcode, format) ==
    LET e1 == Reset(s)
        e2 == Then(e1, LAMBDA q : SetAlign(q, "center"))
        e3 == When(format > 69, e2, LAMBDA q :
                   Write(q, <<29, 107>> \o BarcodeCode(format)
                               \o Itoa(Len(barcode)) \o barcode))
        e4 == When(~(format > 69) /\ format < 69, e3, LAMBDA q :
                   Write(q, <<29, 107>> \o BarcodeCode(format) \o barcode \o <<0>>))
    IN  Then(e4, LAMBDA q : Write(q, barcode))

\* gSend (lines 493-500): the length of data and two more bytes, in two
\* bytes low first, between the prefix and the data.
gSend(s, m, fn, data) ==
    LET l == Len(data) + 2
        e1 == Write(s, <<27, 40, 76>>)
        e2 == Then(e1, LAMBDA q : Write(q, <<Byte(l % 256), Byte(l \div 256), m, fn>>))
    IN  Then(e2, LAMBDA q : Write(q, data))

\* Image (lines 503-564).  A missing width or height is logged and read as
\* the empty string, which Atoi rejects.
Image(s, params, data) ==
    LET wstr == IF Has(params, "width") THEN params["width"] ELSE <<>>
        hstr == IF Has(params, "height") THEN params["height"] ELSE <<>>
        t == SelectSeq(data, LAMBDA c : c # "\n" /\ c # "\r")
        dec == B64Decode(t)
        e1 == When(Has(params, "align"), Ok(s), LAMBDA q : SetAlign(q, params["align"]))
        e2 == When(~Has(params, "width"), e1, LAMBDA q :
                   LogLine(q, "No width specified on image"))
        e3 == When(~Has(params, "height"), e2, LAMBDA q :
                   LogLine(q, "No height specified on image"))
        e4 == Then(e3, LAMBDA q : IF AtoiOk(wstr) THEN Ok(q) ELSE ReturnErr(q))
        e5 == Then(e4, LAMBDA q : IF AtoiOk(hstr) THEN Ok(q) ELSE ReturnErr(q))
        e6 == Then(e5, LAMBDA q : IF B64Ok(t) THEN Ok(q) ELSE ReturnErr(q))
        e7 == Then(e6, LAMBDA q :
                   LogLine(q, "Image len:" \o ToString(Len(dec))
                                  \o " w: " \o ToString(AtoiValue(wstr))
                                  \o " h: " \o ToString(AtoiValue(hstr))))
        e8 == Then(e7, LAMBDA q : gSend(q, 48, 112, <<48, 1, 1, 49>> \o dec))
    IN  Then(e8, LAMBDA q : gSend(q, 48, 50, <<>>))

\* The entries, from the i-th key on, of the %+v of a parameter map: key
\* and value in the order of the keys.  (Of the values the model holds a
\* number and a font one character per element.)
RECURSIVE FmtEntries(_, _)
FmtEntries(params, i) ==
    LET keys == <<"align", "dh", "dw", "em", "font", "height", "lang", "line",
                  "reverse", "rotate", "smooth", "type", "ul", "unit", "width",
                  "x", "y">>
        k == keys[i]
        v == IF k \in {"font", "height", "line", "unit", "width", "x", "y"}
             THEN JoinWith(params[k], "") ELSE params[k]
    IN  IF i > Len(keys) THEN <<>>
        ELSE (IF Has(params, k) THEN <<k \o ":" \o v>> ELSE <<>>)
                 \o FmtEntries(params, i + 1)

\* WriteNode (lines 568-595): the log line, then the method the node's name
\* selects; what that method returns is not read.  data is one character
\* per element; render is how drawing a text node ends.
WriteNode(s, name, params, data, render) ==
    LET str == IF Len(data) > 40 THEN JoinWith(SubSeq(data, 1, 40), "") \o " ..."
               ELSE JoinWith(data, "")
        cstr == IF data = <<>> THEN "" ELSE " => '" \o str \o "'"
        line == "Write: " \o name \o " => map[" \o JoinWith(FmtEntries(params, 1), " ")
                    \o "]" \o cstr
    IN  Then(LogLine(s, line), LAMBDA q :
             CASE name = "text" -> Drop(Text(q, params, JoinWith(data, ""), render))
               [] name = "feed" -> Drop(Feed(q, params))
               [] name = "cut" -> FeedAndCut(q, params)
               [] name = "pulse" -> Pulse(q)
               [] name = "image" -> Drop(Image(q, params, data))
               [] OTHER -> Ok(q))

\* Raster (raster.go lines 37-87) as a method: it leaves the fields alone.
Raster(s, width, height, lineWidth, imgBw, printingType) ==
    LET r == RasterWrites(width, height, lineWidth, imgBw, printingType)
    IN  [p |-> s, writes |-> r.writes, log |-> r.log,
         ret |-> IF r.panic THEN "panic" ELSE "ok"]

---------------------------------------------------------------------------
(* The printer at the far end of the sink.  It starts at its power-on     *)
(* defaults, returns to them on ESC @ and applies each style frame it is  *)
(* sent: the frame's first parameter byte becomes the setting.  ESC R n   *)
(* is the frame this package sends for rotate.                            *)

DevFrame(d, buf) ==
    IF buf = <<27, 64>> THEN NewPrinter
    ELSE IF Len(buf) \in {3, 4} /\ buf[1] \in {27, 29}
    THEN CASE buf[1] = 27 /\ buf[2] = 45 -> [d EXCEPT !.underline = buf[3]]
           [] buf[1] = 27 /\ buf[2] = 71 -> [d EXCEPT !.emphasize = buf[3]]
           [] buf[1] = 27 /\ buf[2] = 123 -> [d EXCEPT !.upsidedown = buf[3]]
           [] buf[1] = 27 /\ buf[2] = 82 -> [d EXCEPT !.rotate = buf[3]]
           [] buf[1] = 29 /\ buf[2] = 66 -> [d EXCEPT !.reverse = buf[3]]
           [] buf[1] = 29 /\ buf[2] = 98 -> [d EXCEPT !.smooth = buf[3]]
           [] buf[1] = 29 /\ buf[2] = 33 ->
                [d EXCEPT !.width = ((buf[3] \div 16) % 8) + 1,
                          !.height = (buf[3] % 8) + 1]
           [] OTHER -> d
    ELSE d

RECURSIVE DevApply(_, _)
DevApply(d, writes) ==
    IF writes = <<>> THEN d ELSE DevApply(DevFrame(d, Head(writes)), Tail(writes))

---------------------------------------------------------------------------
(* The state machine.                                                      *)

\* A sink that accepts every write.
Unbroken == 0 - 1

\* The session right after NewPrinter, but for the record of the call.
Fresh ==
    /\ p = NewPrinter
    /\ w = <<>>
    /\ by = <<>>
    /\ dev = NewPrinter
    /\ ret = "none"
    /\ outp = <<>>
    /\ logged = <<>>
    /\ old = NewPrinter
    /\ ops = 0
    /\ sink = [left |-> Unbroken, failedAt |-> 0]

Initial == Fresh /\ call = [op |-> "NewPrinter", args |-> <<>>] /\ th = <<>>

\* One complete call of a method whose effect on the fields p is e, on a
\* sink that accepts every write.
Invoke(name, args, e) ==
    /\ p' = e.p
    /\ w' = e.writes
    /\ logged' = e.log
    /\ ret' = e.ret
    /\ call' = [op |-> name, args |-> args]
    /\ old' = p
    /\ dev' = DevApply(dev, e.writes)
    /\ UNCHANGED <<by, outp, th, sink>>

\* A pixel buffer of imgLen bytes; seed picks its contents.
ImgBw(imgLen, seed) ==
    [i \in 1..imgLen |-> (seed + 7 * i + (i \div 256)) % 251]

\* The buffer the Raster call in hand was given.
CallImg == ImgBw(call.args.imgLen, call.args.seed)

---------------------------------------------------------------------------
(* SpecCodec: intLowHigh applied to bounded inputs.                        *)

MaxVal == 40

\* A caller holding the arguments of an intLowHigh call.
InitCodec ==
    /\ Fresh
    /\ th = <<>>
    /\ call \in [op : {"intLowHigh pending"},
                 args : [inpNumber :
                             (0 - 2 .. MaxVal)
                                 \cup {127, 128, 255, 256, 257, 300, 32768, 32769, 65535,
                                       65536, 8388608, 8388609, 16777215, 16777216,
                                       16777217, 2147483647, 0 - 300},
                         outBytes : 0 - 1 .. 5]]

CallIntLowHigh ==
    /\ call.op = "intLowHigh pending"
    /\ outp' = intLowHigh(call.args.inpNumber, call.args.outBytes)
    /\ logged' = IntLowHighLog(call.args.inpNumber, call.args.outBytes)
    /\ call' = [call EXCEPT !.op = "intLowHigh"]
    /\ ret' = "ok"
    /\ UNCHANGED <<p, w, by, dev, old, ops, th, sink>>

NextCodec == CallIntLowHigh

SpecCodec == InitCodec /\ [][NextCodec]_vars

---------------------------------------------------------------------------
(* SpecRaster: Raster on images of up to MaxChunks + 1 chunks.             *)

MaxChunks == 2
MaxLineWidth == 2
MaxSmallHeight == 3

RasterHeights ==
    (0 - 1 .. MaxSmallHeight)
        \cup {k * gs8lMaxY + d : k \in 1..MaxChunks, d \in {0 - 1, 0, 1}}
        \cup {2000}

\* The buffer holds height * lineWidth bytes and slack more.
RasterArgs(in) ==
    [width |-> in.width, height |-> in.height, lineWidth |-> in.lineWidth,
     imgLen |-> IF in.height * in.lineWidth + in.slack < 0 THEN 0
                ELSE in.height * in.lineWidth + in.slack,
     seed |-> in.seed, printingType |-> in.printingType]

\* The recorded state of the session Raster is called on: that of a new
\* session, or the one SetFontSize(2, 3) and SetUnderline(1) leave.
RasterSessions ==
    {NewPrinter, [NewPrinter EXCEPT !.width = 2, !.height = 3, !.underline = 1]}

\* A caller holding the arguments of a Raster call on such a session: the
\* buffer holds height * lineWidth bytes, one more, or one less.
InitRaster ==
    /\ p \in RasterSessions
    /\ dev = p /\ old = p
    /\ w = <<>> /\ by = <<>> /\ ret = "none" /\ outp = <<>> /\ logged = <<>> /\ ops = 0
    /\ sink = [left |-> Unbroken, failedAt |-> 0]
    /\ th = <<>>
    /\ call \in {[op |-> "Raster pending", args |-> RasterArgs(in)] :
                     in \in [width : {0, 8, 512, 65535, 65836}, height : RasterHeights,
                             lineWidth : 0..MaxLineWidth, slack : {0 - 1, 0, 1},
                             seed : {0, 100},
                             printingType : {"bitImage", "graphics", "text"}]
                                \cup [width : {512}, height : {2000}, lineWidth : {64},
                                      slack : {0}, seed : {3},
                                      printingType : {"bitImage", "graphics"}]
                                \cup [width : {8}, height : {8388608, 8388609},
                                      lineWidth : {0}, slack : {0, 1}, seed : {0},
                                      printingType : {"bitImage"}]}

RasterCall ==
    /\ call.op = "Raster pending"
    /\ Invoke("Raster", call.args,
              Raster(p, call.args.width, call.args.height, call.args.lineWidth,
                     ImgBw(call.args.imgLen, call.args.seed), call.args.printingType))
    /\ UNCHANGED ops

NextRaster == RasterCall

SpecRaster == InitRaster /\ [][NextRaster]_vars

---------------------------------------------------------------------------
(* SpecLoop: one Raster call, statement by statement: the choice of the    *)
(* branch, then one step for each iteration of the loop of lines 52-85.    *)

InitLoop ==
    /\ p \in RasterSessions
    /\ dev = p /\ old = p
    /\ w = <<>> /\ by = <<>> /\ ret = "none" /\ outp = <<>> /\ logged = <<>> /\ ops = 0
    /\ sink = [left |-> Unbroken, failedAt |-> 0]
    /\ call \in {[op |-> "Raster", args |-> RasterArgs(in)] :
                     in \in [width : {8, 512}, height : RasterHeights,
                             lineWidth : 0 - 1 .. 1, slack : {0 - 1, 0}, seed : {0},
                             printingType : {"bitImage", "graphics", "text"}]}
    /\ th = [pc |-> "start", l |-> 0]

\* l += lines  (line 84)
CursorStuck(l, lines) == l

CursorAfter(l, lines) == l + lines

\* The writes of a step reach the sink and the printer, its log lines the
\* log.
LoopWrites(writes, log) ==
    /\ w' = w \o writes
    /\ dev' = DevApply(dev, writes)
    /\ logged' = logged \o log
    /\ UNCHANGED <<p, by, call, outp, old, ops, sink>>

\* if printingType == "bitImage" { ... } else if printingType == "graphics" {
RasterBranch ==
    /\ th.pc = "start"
    /\ IF call.args.printingType = "bitImage"
       THEN /\ LoopWrites(<<BitImage(call.args.width, call.args.height, CallImg)>>,
                           BitImageLog(call.args.width, call.args.height))
            /\ th' = [th EXCEPT !.pc = "done"]
            /\ ret' = "ok"
       ELSE IF call.args.printingType = "graphics"
       THEN /\ LoopWrites(<<>>, <<>>)
            /\ th' = [pc |-> "loop", l |-> 0]
            /\ UNCHANGED ret
       ELSE /\ LoopWrites(<<>>, <<>>)
            /\ th' = [th EXCEPT !.pc = "done"]
            /\ ret' = "ok"

\* One iteration (lines 53-84): header, pixel rows, flush, l += lines.
LoopChunk ==
    /\ th.pc = "loop"
    /\ th.l < call.args.height
    /\ LET lines == ChunkLines(call.args.height, th.l)
           lo == th.l * call.args.lineWidth
           hi == (th.l + lines) * call.args.lineWidth
       IN  /\ SliceOk(CallImg, lo, hi)
           /\ LoopWrites(<<ChunkHeader(call.args.width, lines, call.args.lineWidth),
                           Slice(CallImg, lo, hi), FlushFrame>>, <<>>)
           /\ th' = [th EXCEPT !.l = CursorAfter(th.l, lines)]
           /\ UNCHANGED ret

\* An iteration whose slice expression (line 71) is out of range: the
\* header has been written, the call panics.
LoopPanic ==
    /\ th.pc = "loop"
    /\ th.l < call.args.height
    /\ LET lines == ChunkLines(call.args.height, th.l)
           lo == th.l * call.args.lineWidth
           hi == (th.l + lines) * call.args.lineWidth
       IN  /\ ~SliceOk(CallImg, lo, hi)
           /\ LoopWrites(<<ChunkHeader(call.args.width, lines, call.args.lineWidth)>>,
                         <<>>)
           /\ th' = [th EXCEPT !.pc = "panic"]
           /\ ret' = "panic"

\* l < height is false: the loop, and the call, end.
LoopExit ==
    /\ th.pc = "loop"
    /\ ~(th.l < call.args.height)
    /\ LoopWrites(<<>>, <<>>)
    /\ th' = [th EXCEPT !.pc = "done"]
    /\ ret' = "ok"

NextLoop == RasterBranch \/ LoopChunk \/ LoopPanic \/ LoopExit

\* The caller's goroutine keeps running: a step that can be taken is taken.
SpecLoop == InitLoop /\ [][NextLoop]_vars /\ WF_vars(NextLoop)

---------------------------------------------------------------------------
(* Spec: one caller invoking the public methods of a session, one call     *)
(* after the other, at most MaxOps calls.                                  *)
(* The option setters of lines 644-675 store into package variables that  *)
(* only the drawing of a text reads; how that drawing ends is the input    *)
(* render of the methods that draw.                                        *)

MaxOps == 3

Session(name, args, e) ==
    /\ ops < MaxOps
    /\ ops' = ops + 1
    /\ Invoke(name, args, e)

\* The arguments the caller draws from.
FontSizes ==
    {[width |-> x, height |-> y] : x \in {0, 1, 8, 9, 255}, y \in {0, 1, 8, 9, 255}}
        \cup {[width |-> 2, height |-> 3]}
ToggleBytes == {0, 1, 200}
MoveArgs == {0, 300}
WriteArgs == {<<>>, <<72, 105>>}
FormfeedCounts == {0 - 1, 0, 3, 128}
FontNames == {"A", "B", "C", "D"}
AlignNames == {"left", "center", "right", "justify"}
LangNames == {Languages[i] : i \in 1..Len(Languages)} \cup {"xx"}

\* A parameter map with the one key k.
One(k, values) == {k :> v : v \in values}

\* Two maps joined.
Both(ms, ns) == {m @@ n : m \in ms, n \in ns}

\* The parameters of a text.  Numerals, well-formed and malformed, hold one
\* character per element.
TextParams ==
    LET FontNumerals ==
            {<<"2">>, <<"9">>, <<"2", "5", "8">>, <<"-", "1">>, <<"a", "b", "c">>}
        MoveNumerals == {<<"3", "0", "0">>, <<"1", "x">>}
    IN
    {<<>>}
        \cup One("align", {"center", "justify"}) \cup One("lang", {"fr"})
        \cup One("smooth", {"true", "0"}) \cup One("em", {"1"})
        \cup One("ul", {"true"}) \cup One("reverse", {"1"}) \cup One("rotate", {"true"})
        \cup One("font", {<<"f", "o", "n", "t", "_", "b">>, <<"b">>})
        \cup One("dw", {"true"}) \cup One("dh", {"1"})
        \cup One("width", FontNumerals) \cup One("height", FontNumerals)
        \cup One("x", MoveNumerals) \cup One("y", MoveNumerals)
        \cup Both(One("em", {"1"}),
                  One("width", {<<"a", "b", "c">>}) \cup One("height", {<<"a", "b", "c">>})
                      \cup One("x", {<<"1", "x">>}) \cup One("y", {<<"1", "x">>}))
        \cup Both(One("width", {<<"2">>}), One("height", {<<"a", "b", "c">>}))
        \cup Both(One("x", {<<"3", "0", "0">>}), One("y", {<<"1", "x">>}))

FeedParams ==
    LET FeedNumerals == {<<"3">>, <<"3", " ">>}
    IN  {<<>>} \cup One("line", FeedNumerals) \cup One("unit", FeedNumerals)
            \cup Both(One("line", FeedNumerals), One("unit", FeedNumerals))

FeedAndCutParams == {<<>>} \cup One("type", {"feed", "cut"})

\* The text and, when there is one, how its rendering ends.
TextInputs ==
    [params : TextParams, text : {""}, render : {"none"}]
        \cup [params : {<<>>, "em" :> "1"}, text : {"hello"}, render : {"ok", "fail"}]

BarcodeData == {<<49, 50, 51>>}
BarcodeFormats == {0, 4, 5, 69, 70, 73}

SessionRasterArgs ==
    [width : {8}, height : {0, 2}, lineWidth : {1}, imgLen : {2}, seed : {0},
     printingType : {"bitImage", "graphics"}]

DoReset == Session("Reset", <<>>, Reset(p))
DoInit == Session("Init", <<>>, Init(p))
DoEnd == Session("End", <<>>, End(p))
DoCut == Session("Cut", <<>>, Cut(p))
DoCash == Session("Cash", <<>>, Cash(p))
DoLinefeed == Session("Linefeed", <<>>, Linefeed(p))
DoFormfeed == Session("Formfeed", <<>>, Formfeed(p))
DoPulse == Session("Pulse", <<>>, Pulse(p))
DoWrite == \E buf \in WriteArgs : Session("Write", [buf |-> buf], Write(p, buf))
DoFormfeedN == \E n \in FormfeedCounts : Session("FormfeedN", [n |-> n], FormfeedN(p, n))
DoSetFont == \E font \in FontNames : Session("SetFont", [font |-> font], SetFont(p, font))
DoSetAlign ==
    \E align \in AlignNames : Session("SetAlign", [align |-> align], SetAlign(p, align))
DoSetLang == \E lang \in LangNames : Session("SetLang", [lang |-> lang], SetLang(p, lang))
DoSetFontSize ==
    \E a \in FontSizes : Session("SetFontSize", a, SetFontSize(p, a.width, a.height))
DoSetUnderline ==
    \E v \in ToggleBytes : Session("SetUnderline", [v |-> v], SetUnderline(p, v))
DoSetEmphasize ==
    \E v \in ToggleBytes : Session("SetEmphasize", [v |-> v], SetEmphasize(p, v))
DoSetUpsidedown ==
    \E v \in ToggleBytes : Session("SetUpsidedown", [v |-> v], SetUpsidedown(p, v))
DoSetRotate == \E v \in ToggleBytes : Session("SetRotate", [v |-> v], SetRotate(p, v))
DoSetReverse == \E v \in ToggleBytes : Session("SetReverse", [v |-> v], SetReverse(p, v))
DoSetSmooth == \E v \in ToggleBytes : Session("SetSmooth", [v |-> v], SetSmooth(p, v))
DoSendFontSize == Session("SendFontSize", <<>>, SendFontSize(p))
DoSendUnderline == Session("SendUnderline", <<>>, SendUnderline(p))
DoSendEmphasize == Session("SendEmphasize", <<>>, SendEmphasize(p))
DoSendUpsidedown == Session("SendUpsidedown", <<>>, SendUpsidedown(p))
DoSendRotate == Session("SendRotate", <<>>, SendRotate(p))
DoSendReverse == Session("SendReverse", <<>>, SendReverse(p))
DoSendSmooth == Session("SendSmooth", <<>>, SendSmooth(p))
DoSendMoveX == \E x \in MoveArgs : Session("SendMoveX", [x |-> x], SendMoveX(p, x))
DoSendMoveY == \E y \in MoveArgs : Session("SendMoveY", [y |-> y], SendMoveY(p, y))
DoText ==
    \E in \in TextInputs : Session("Text", in, Text(p, in.params, in.text, in.render))
DoFeed == \E params \in FeedParams : Session("Feed", [params |-> params], Feed(p, params))
DoFeedAndCut ==
    \E params \in FeedAndCutParams :
        Session("FeedAndCut", [params |-> params], FeedAndCut(p, params))
DoBarcode ==
    \E barcode \in BarcodeData, format \in BarcodeFormats :
        Session("Barcode", [barcode |-> barcode, format |-> format],
                Barcode(p, barcode, format))
DoRaster ==
    \E a \in SessionRasterArgs :
        Session("Raster", a,
                Raster(p, a.width, a.height, a.lineWidth, ImgBw(a.imgLen, a.seed),
                       a.printingType))

\* The calls of Image: data that decodes to one byte and to two, data that
\* is not base64, no width and height, a malformed width after an
\* alignment, and data with a line break after an alignment Image does not
\* know.
SmallImage == "width" :> <<"1">> @@ "height" :> <<"1">>
OneByte == <<"A", "A", "=", "=">>

ImageCalls ==
    [params : {SmallImage}, data : {OneByte, <<"S", "G", "k", "=">>, <<"A">>}]
        \cup [params : {<<>>, "align" :> "right" @@ "width" :> <<"1", "x">>},
              data : {OneByte}]
        \cup {[params |-> "align" :> "justify" @@ "width" :> <<"8">> @@ "height" :> <<"2">>,
               data |-> <<"A", "A", "\n", "=", "=">>]}

\* The nodes of WriteNode: one or two of each name, among them a text of
\* more than 40 characters, and a name it does not know.
Nodes ==
    {[name |-> "text", params |-> "em" :> "1" @@ "align" :> "center",
      data |-> <<"0", "1", "2", "3", "4", "5", "6", "7", "8", "9",
                 "0", "1", "2", "3", "4", "5", "6", "7", "8", "9",
                 "0", "1", "2", "3", "4", "5", "6", "7", "8", "9",
                 "0", "1", "2", "3", "4", "5", "6", "7", "8", "9", "!">>,
      render |-> "ok"],
     [name |-> "text", params |-> "x" :> <<"1", "x">>, data |-> <<"h", "i">>,
      render |-> "ok"],
     [name |-> "feed", params |-> "line" :> <<"3", " ">>, data |-> <<>>,
      render |-> "none"],
     [name |-> "cut", params |-> "type" :> "feed", data |-> <<>>, render |-> "none"],
     [name |-> "pulse", params |-> <<>>, data |-> <<>>, render |-> "none"],
     [name |-> "beep", params |-> <<>>, data |-> <<>>, render |-> "none"],
     [name |-> "image", params |-> SmallImage, data |-> OneByte, render |-> "none"]}

DoImage == \E a \in ImageCalls : Session("Image", a, Image(p, a.params, a.data))
DoWriteNode ==
    \E n \in Nodes :
        Session("WriteNode", n, WriteNode(p, n.name, n.params, n.data, n.render))

DoWriteString ==
    \E render \in {"ok", "fail"} :
        Session("WriteString", [render |-> render], WriteString(p, render))
DoPrintImage ==
    \E load \in {"png", "jpeg", "fail"} :
        Session("PrintImage", [load |-> load], PrintImage(p, load))
DoPrintTextImage ==
    \E render \in {"ok", "noimage", "fail"} :
        Session("PrintTextImage", [render |-> render], PrintTextImage(p, render))

Next ==
    \/ DoReset \/ DoInit \/ DoEnd \/ DoCut \/ DoCash \/ DoLinefeed \/ DoFormfeed
    \/ DoPulse \/ DoWrite \/ DoFormfeedN
    \/ DoSetFont \/ DoSetAlign \/ DoSetLang
    \/ DoSetFontSize
    \/ DoSetUnderline \/ DoSetEmphasize \/ DoSetUpsidedown \/ DoSetRotate
    \/ DoSetReverse \/ DoSetSmooth
    \/ DoSendFontSize \/ DoSendUnderline \/ DoSendEmphasize \/ DoSendUpsidedown
    \/ DoSendRotate \/ DoSendReverse \/ DoSendSmooth \/ DoSendMoveX \/ DoSendMoveY
    \/ DoText \/ DoFeed \/ DoFeedAndCut \/ DoBarcode \/ DoRaster
    \/ DoWriteString \/ DoPrintImage \/ DoPrintTextImage \/ DoImage \/ DoWriteNode

Spec == Initial /\ [][Next]_vars

---------------------------------------------------------------------------
(* SpecConc: two goroutines, each calling one method on the same Printer.  *)
(* No method takes the Printer's embedded sync.Mutex, so the callers'      *)
(* statements interleave: a field store, the read of the field by which    *)
(* Send* formats its frame, the Write of that frame, and each Write of     *)
(* Raster are steps of their own.                                          *)

Callers == {1, 2}

\* A setter as its steps (lines 215-248): the store, then Send*'s
\* fmt.Sprintf on the field and its Write of the result.
SetterProg(field, v) ==
    <<[kind |-> "set", field |-> field, v |-> v],
      [kind |-> "format", field |-> field],
      [kind |-> "send", field |-> field]>>

\* A graphics-mode Raster as its Writes (raster.go lines 60-82).
RasterProg(a) ==
    LET ws == RasterWrites(a.width, a.height, a.lineWidth, ImgBw(a.imgLen, a.seed),
                           a.printingType).writes
    IN  [i \in 1..Len(ws) |-> [kind |-> "write", buf |-> ws[i]]]

ConcCalls ==
    {[op |-> "SetUnderline", args |-> [v |-> v], prog |-> SetterProg("underline", v)] :
        v \in {0, 1}}
        \cup {[op |-> "SetEmphasize", args |-> [v |-> v],
               prog |-> SetterProg("emphasize", v)] : v \in {0, 1}}
        \cup {[op |-> "Raster", args |-> a, prog |-> RasterProg(a)] :
                 a \in [width : {8}, height : {1, gs8lMaxY + 1}, lineWidth : {1},
                        imgLen : {gs8lMaxY + 1}, seed : {0}, printingType : {"graphics"}]}

InitConc ==
    /\ Fresh
    /\ call = [op |-> "go", args |-> <<>>]
    /\ th \in [Callers -> {[op |-> c.op, args |-> c.args, prog |-> c.prog, pc |-> 1,
                               frame |-> <<>>] : c \in ConcCalls}]

AtStep(t, kind) == th[t].pc <= Len(th[t].prog) /\ th[t].prog[th[t].pc].kind = kind
Advance(t) == th' = [th EXCEPT ![t].pc = @ + 1]

\* p.underline = v
StoreField(t) ==
    /\ AtStep(t, "set")
    /\ p' = [p EXCEPT ![th[t].prog[th[t].pc].field] = th[t].prog[th[t].pc].v]
    /\ Advance(t)
    /\ UNCHANGED <<w, by, dev, call, ret, outp, logged, old, ops, sink>>

\* fmt.Sprintf("\x1B-%c", p.underline): the caller reads the field as it is
\* now and holds the frame.
FormatField(t) ==
    /\ AtStep(t, "format")
    /\ th' = [th EXCEPT ![t].frame = IF th[t].prog[th[t].pc].field = "underline"
                                      THEN SendUnderline(p).writes[1]
                                      ELSE SendEmphasize(p).writes[1],
                        ![t].pc = @ + 1]
    /\ UNCHANGED <<p, w, by, dev, call, ret, outp, logged, old, ops, sink>>

\* p.Write(...) of the frame the caller holds
SendField(t) ==
    /\ AtStep(t, "send")
    /\ w' = Append(w, th[t].frame)
    /\ by' = Append(by, t)
    /\ dev' = DevFrame(dev, th[t].frame)
    /\ Advance(t)
    /\ UNCHANGED <<p, call, ret, outp, logged, old, ops, sink>>

\* p.Write(...) inside Raster's loop
RasterWrite(t) ==
    /\ AtStep(t, "write")
    /\ w' = Append(w, th[t].prog[th[t].pc].buf)
    /\ by' = Append(by, t)
    /\ dev' = DevFrame(dev, th[t].prog[th[t].pc].buf)
    /\ Advance(t)
    /\ UNCHANGED <<p, call, ret, outp, logged, old, ops, sink>>

NextConc ==
    \E t \in Callers : StoreField(t) \/ FormatField(t) \/ SendField(t) \/ RasterWrite(t)

SpecConc == InitConc /\ [][NextConc]_vars

---------------------------------------------------------------------------
(* SpecFail: one call on a new session whose sink breaks: it accepts some  *)
(* writes and returns an error from every Write after them.                *)

MaxAccepted == 3

\* The calls the caller may make.
FailCalls ==
    {[op |-> "Write", args |-> [buf |-> buf]] : buf \in WriteArgs}
        \cup {[op |-> o, args |-> <<>>] :
                 o \in {"Init", "End", "Cut", "Cash", "Linefeed", "Formfeed", "Pulse",
                        "SendFontSize"}}
        \cup {[op |-> "FormfeedN", args |-> [n |-> 3]]}
        \cup {[op |-> "SetFont", args |-> [font |-> "B"]],
              [op |-> "SetAlign", args |-> [align |-> "right"]],
              [op |-> "SetLang", args |-> [lang |-> "de"]],
              [op |-> "SetFontSize", args |-> [width |-> 2, height |-> 3]]}
        \cup {[op |-> o, args |-> [v |-> 1]] :
                 o \in {"SetUnderline", "SetEmphasize", "SetUpsidedown", "SetRotate",
                        "SetReverse", "SetSmooth"}}
        \cup {[op |-> "Text", args |-> in] :
                 in \in [params : {"em" :> "1" @@ "ul" :> "true"}, text : {"", "hello"},
                         render : {"ok"}]}
        \cup {[op |-> "Feed", args |-> [params |-> params]] : params \in FeedParams}
        \cup {[op |-> "FeedAndCut", args |-> [params |-> params]] :
                 params \in FeedAndCutParams}
        \cup {[op |-> "Barcode", args |-> [barcode |-> b, format |-> f]] :
                 b \in BarcodeData, f \in {4, 73}}
        \cup {[op |-> "Raster", args |-> a] : a \in SessionRasterArgs}
        \cup {[op |-> "WriteString", args |-> [render |-> r]] : r \in {"ok", "fail"}}
        \cup {[op |-> "PrintImage", args |-> [load |-> "png"]],
              [op |-> "PrintTextImage", args |-> [render |-> "ok"]],
              [op |-> "Image", args |-> [params |-> SmallImage, data |-> OneByte]],
              [op |-> "WriteNode",
               args |-> [name |-> "pulse", params |-> <<>>, data |-> <<>>,
                         render |-> "none"]]}

\* The method c.op applied to the fields s with the arguments c.args.
MethodEffect(s, c) ==
    CASE c.op = "Write" -> Write(s, c.args.buf)
      [] c.op = "Init" -> Init(s)
      [] c.op = "End" -> End(s)
      [] c.op = "Cut" -> Cut(s)
      [] c.op = "Cash" -> Cash(s)
      [] c.op = "Linefeed" -> Linefeed(s)
      [] c.op = "Formfeed" -> Formfeed(s)
      [] c.op = "Pulse" -> Pulse(s)
      [] c.op = "SendFontSize" -> SendFontSize(s)
      [] c.op = "FormfeedN" -> FormfeedN(s, c.args.n)
      [] c.op = "SetFont" -> SetFont(s, c.args.font)
      [] c.op = "SetAlign" -> SetAlign(s, c.args.align)
      [] c.op = "SetLang" -> SetLang(s, c.args.lang)
      [] c.op = "SetFontSize" -> SetFontSize(s, c.args.width, c.args.height)
      [] c.op = "SetUnderline" -> SetUnderline(s, c.args.v)
      [] c.op = "SetEmphasize" -> SetEmphasize(s, c.args.v)
      [] c.op = "SetUpsidedown" -> SetUpsidedown(s, c.args.v)
      [] c.op = "SetRotate" -> SetRotate(s, c.args.v)
      [] c.op = "SetReverse" -> SetReverse(s, c.args.v)
      [] c.op = "SetSmooth" -> SetSmooth(s, c.args.v)
      [] c.op = "Text" -> Text(s, c.args.params, c.args.text, c.args.render)
      [] c.op = "Feed" -> Feed(s, c.args.params)
      [] c.op = "FeedAndCut" -> FeedAndCut(s, c.args.params)
      [] c.op = "Barcode" -> Barcode(s, c.args.barcode, c.args.format)
      [] c.op = "Raster" ->
            Raster(s, c.args.width, c.args.height, c.args.lineWidth,
                   ImgBw(c.args.imgLen, c.args.seed), c.args.printingType)
      [] c.op = "WriteString" -> WriteString(s, c.args.render)
      [] c.op = "PrintImage" -> PrintImage(s, c.args.load)
      [] c.op = "PrintTextImage" -> PrintTextImage(s, c.args.render)
      [] c.op = "Image" -> Image(s, c.args.params, c.args.data)
      [] c.op = "WriteNode" ->
            WriteNode(s, c.args.name, c.args.params, c.args.data, c.args.render)

\* Of n writes in a row, the number a sink with `left` writes left accepts.
Accepted(left, n) == IF left = Unbroken THEN n ELSE Min(left, n)

\* Write hands the sink's error to its caller (lines 89-91: return
\* p.w.Write(buf)), and so does WriteString for its last, empty write (line
\* 96); every other method calls p.w.Write or p.Write as a statement and
\* drops what it returns.
ReturnsWriteError(op) == op \in {"Write", "WriteString"}

\* A caller about to make one call, on a sink that breaks after
\* 0..MaxAccepted writes.
InitFail ==
    /\ p = NewPrinter /\ w = <<>> /\ by = <<>> /\ dev = NewPrinter /\ ret = "none"
    /\ outp = <<>> /\ logged = <<>> /\ old = NewPrinter /\ ops = 0 /\ th = <<>>
    /\ sink \in [left : 0..MaxAccepted, failedAt : {0}]
    /\ call \in [op : {"pending"}, args : FailCalls]

\* The call, complete: the method runs as on any sink, since no method
\* reads the result of a write before its last statement; the sink takes the
\* writes it still accepts and fails the others, the last one among them.
CallOnBreakingSink ==
    /\ call.op = "pending"
    /\ LET c == call.args
           e == MethodEffect(p, c)
           n == Len(e.writes)
           k == Accepted(sink.left, n)
       IN  /\ p' = e.p
           /\ w' = e.writes
           /\ logged' = e.log
           /\ call' = c
           /\ old' = p
           /\ dev' = DevApply(dev, SubSeq(e.writes, 1, k))
           /\ sink' = [left |-> sink.left - k, failedAt |-> IF k < n THEN k + 1 ELSE 0]
           /\ ret' = IF ReturnsWriteError(c.op) /\ k < n THEN "err" ELSE e.ret
    /\ UNCHANGED <<by, outp, ops, th>>

NextFail == CallOnBreakingSink

SpecFail == InitFail /\ [][NextFail]_vars

---------------------------------------------------------------------------
(* Reading the sink after a Raster call in graphics mode.                  *)

\* The little-endian digits of v >= 0: n bytes, least significant first.
LittleEndian(v, n) == [i \in 1..n |-> (v \div (256 ^ (i - 1))) % 256]

RasterDone == call.op = "Raster" /\ ret = "ok"
GraphicsDone == RasterDone /\ call.args.printingType = "graphics"

ChunkCount == Len(w) \div 3
HeaderOf(k) == w[3 * k - 2]
PixelsOf(k) == w[3 * k - 1]
FlushOf(k) == w[3 * k]

\* The line count a chunk's header declares (Llo, Lhi decoded).
DeclaredLines(k) == HeaderOf(k)[16] + 256 * HeaderOf(k)[17]

\* The first row of chunk k: the rows the earlier chunks declared.
RECURSIVE ChunkStart(_)
ChunkStart(k) == IF k <= 1 THEN 0 ELSE ChunkStart(k - 1) + DeclaredLines(k - 1)

RECURSIVE PixelsUpTo(_)
PixelsUpTo(k) == IF k < 1 THEN <<>> ELSE PixelsUpTo(k - 1) \o PixelsOf(k)

\* C1: a graphics-mode Raster of height > 0 emits ceil(height / 1662)
\* chunks; each declares between 1 and 1662 lines, namely
\* min(1662, rows remaining); the line counts sum to height, so the row
\* ranges [start, start + lines) tile [0, height) in order; a height of 2000
\* gives the chunks [0, 1662) and [1662, 2000), the second of 338 lines.
C1_ChunksPartitionRows ==
    (GraphicsDone /\ call.args.height > 0) =>
        /\ Len(w) = 3 * ChunkCount
        /\ ChunkCount = (call.args.height + gs8lMaxY - 1) \div gs8lMaxY
        /\ \A k \in 1..ChunkCount :
              /\ Len(HeaderOf(k)) = 17
              /\ DeclaredLines(k) \in 1..gs8lMaxY
              /\ DeclaredLines(k) = Min(gs8lMaxY, call.args.height - ChunkStart(k))
              /\ ChunkStart(k) = (k - 1) * gs8lMaxY
              /\ Len(PixelsOf(k)) = DeclaredLines(k) * call.args.lineWidth
        /\ ChunkStart(ChunkCount + 1) = call.args.height
        /\ (call.args.height = 2000 =>
               /\ ChunkCount = 2
               /\ <<ChunkStart(1), ChunkStart(2), ChunkStart(3)>> = <<0, 1662, 2000>>
               /\ DeclaredLines(2) = 338)

C1_Witness ==
    /\ GraphicsDone
    /\ call.args.width = 512 /\ call.args.height = 2000 /\ call.args.lineWidth = 64
    /\ ChunkCount = 2
    /\ Len(PixelsOf(2)) = 338 * 64

\* C2: in graphics mode the sink receives, chunk after chunk, exactly the
\* 17-byte header, then the pixel bytes of the chunk's rows
\* imgBw[start*lineWidth : (start+lines)*lineWidth], then the 7-byte flush
\* frame; nothing else is written, so each chunk's flush precedes the next
\* chunk's header, and the pixel writes concatenated are
\* imgBw[0 : height*lineWidth].
C2_HeaderPixelsFlushInOrder ==
    GraphicsDone =>
        /\ Len(w) = 3 * ChunkCount
        /\ (call.args.height <= 0 => w = <<>>)
        /\ \A k \in 1..ChunkCount :
              /\ Len(HeaderOf(k)) = 17
              /\ SubSeq(HeaderOf(k), 1, 3) = <<29, 56, 76>>
              /\ PixelsOf(k) =
                    SubSeq(CallImg, ChunkStart(k) * call.args.lineWidth + 1,
                           (ChunkStart(k) + DeclaredLines(k)) * call.args.lineWidth)
              /\ FlushOf(k) = <<29, 40, 76, 2, 0, 48, 50>>
        /\ (call.args.height > 0 =>
               PixelsUpTo(ChunkCount)
                   = SubSeq(CallImg, 1, call.args.height * call.args.lineWidth))

C2_Witness ==
    /\ GraphicsDone
    /\ call.args.height = 2 * gs8lMaxY + 1
    /\ call.args.lineWidth = 2
    /\ ChunkCount = 3
    /\ Len(PixelsUpTo(3)) = 2 * (2 * gs8lMaxY + 1)
    /\ PixelsOf(2) # PixelsOf(1)

\* The rows a chunk actually carries, counted from its pixel write.
RowsSent(k) == Len(PixelsOf(k)) \div call.args.lineWidth

\* C3: every chunk header is [1D 38 4C, P0..P3, 30 70 30, 01 01, 31,
\* Wlo Whi, Llo Lhi] with P0..P3 the little-endian P = 10 + lines *
\* lineWidth, Wlo Whi the little-endian pixel width (its low 16 bits) and
\* Llo Lhi the little-endian line count; Llo Lhi decodes to the number of
\* rows sent in the chunk's pixel write.
C3_ChunkHeaderLayout ==
    (GraphicsDone /\ call.args.lineWidth > 0) =>
        \A k \in 1..ChunkCount :
            /\ Len(PixelsOf(k)) = RowsSent(k) * call.args.lineWidth
            /\ HeaderOf(k) =
                  <<29, 56, 76>>
                      \o LittleEndian(10 + RowsSent(k) * call.args.lineWidth, 4)
                      \o <<48, 112, 48>> \o <<1, 1>> \o <<49>>
                      \o LittleEndian(call.args.width % 65536, 2)
                      \o LittleEndian(RowsSent(k), 2)
            /\ HeaderOf(k)[14] + 256 * HeaderOf(k)[15] = call.args.width % 65536
            /\ DeclaredLines(k) = RowsSent(k)

C3_Witness ==
    /\ GraphicsDone
    /\ call.args.width = 512 /\ call.args.height = 2000 /\ call.args.lineWidth = 64
    /\ HeaderOf(1) = <<29, 56, 76, 138, 159, 1, 0, 48, 112, 48, 1, 1, 49, 0, 2, 126, 6>>
    /\ HeaderOf(2) = <<29, 56, 76, 138, 84, 0, 0, 48, 112, 48, 1, 1, 49, 0, 2, 82, 1>>

\* C19: a "bitImage" Raster makes exactly one write, the header
\* [1D 76 30, density 0, ceil(width/8) as two bytes little-endian, height
\* as two bytes little-endian] immediately followed by the whole pixel
\* buffer, and changes no recorded field (for a width and height whose
\* fields fit two bytes).
C19_BitImageSingleWrite ==
    (/\ RasterDone
     /\ call.args.printingType = "bitImage"
     /\ call.args.height \in 0..65535
     /\ call.args.width \in 0..(8 * 65535)) =>
        /\ Len(w) = 1
        /\ w[1] = <<29, 118, 48, 0>>
                      \o LittleEndian((call.args.width + 7) \div 8, 2)
                      \o LittleEndian(call.args.height, 2)
                      \o CallImg
        /\ p = old

C19_Witness ==
    /\ RasterDone
    /\ call.args.printingType = "bitImage"
    /\ call.args.width = 65836 /\ call.args.height = 2000 /\ call.args.lineWidth = 2
    /\ old.width = 2 /\ old.underline = 1
    /\ SubSeq(w[1], 1, 8) = <<29, 118, 48, 0, 38, 32, 208, 7>>
    /\ Len(w[1]) = 8 + call.args.imgLen
    /\ p = old

LoopOver == th.pc \in {"done", "panic"}
InGraphicsMode == call.args.printingType = "graphics"

\* C20: a graphics-mode Raster terminates whatever the height and the
\* lineWidth: each iteration of its loop moves the row cursor forward by at
\* least one row and never past height, and the loop exits with the cursor
\* at height when height > 0; when height <= 0, or the printing type is
\* neither "bitImage" nor "graphics", nothing is written.
C20_GraphicsLoopTerminates ==
    /\ <>LoopOver
    /\ [][(th.pc = "loop" /\ th'.pc = "loop") =>
             (th'.l >= th.l + 1 /\ th'.l <= call.args.height)]_vars
    /\ []((th.pc = "done" /\ InGraphicsMode /\ call.args.height > 0) =>
             th.l = call.args.height)
    /\ [](((InGraphicsMode /\ call.args.height <= 0)
             \/ call.args.printingType \notin {"bitImage", "graphics"}) => w = <<>>)

C20_Witness ==
    /\ th.pc = "done" /\ InGraphicsMode
    /\ call.args.height = 2 * gs8lMaxY + 1
    /\ call.args.lineWidth = 1
    /\ th.l = call.args.height
    /\ Len(w) = 9

\* The loop taken step by step writes what GraphicsLoop computes.
LoopAgreesWithRasterWrites ==
    LoopOver =>
        /\ w = RasterWrites(call.args.width, call.args.height, call.args.lineWidth,
                            CallImg, call.args.printingType).writes
        /\ (ret = "panic") =
               RasterWrites(call.args.width, call.args.height, call.args.lineWidth,
                            CallImg, call.args.printingType).panic
        /\ logged = RasterWrites(call.args.width, call.args.height, call.args.lineWidth,
                                 CallImg, call.args.printingType).log

---------------------------------------------------------------------------
(* intLowHigh                                                              *)

CodecDone == call.op = "intLowHigh"

\* value lies in [0, 256^byteCount - 1]; every integer of the model is
\* below 256^4.
Representable(value, byteCount) ==
    value >= 0 /\ (byteCount >= 4 \/ value < 256 ^ byteCount)

\* C4: for byteCount in 1..4 and value in [0, 256^byteCount - 1],
\* intLowHigh returns byteCount bytes, the little-endian digits of value
\* (so they decode to value); encode(0, n) is n zero bytes and
\* encode(300, 2) is [0x2C, 0x01].
C4_IntLowHighLittleEndian ==
    (/\ CodecDone
     /\ call.args.outBytes \in 1..4
     /\ Representable(call.args.inpNumber, call.args.outBytes)) =>
        /\ Len(outp) = call.args.outBytes
        /\ \A i \in 1..Len(outp) : outp[i] \in 0..255
        /\ outp = LittleEndian(call.args.inpNumber, call.args.outBytes)
        /\ (call.args.inpNumber = 0 => \A i \in 1..Len(outp) : outp[i] = 0)
        /\ (call.args.inpNumber = 300 /\ call.args.outBytes = 2 => outp = <<44, 1>>)

C4_Witness ==
    /\ CodecDone
    /\ call.args.inpNumber = 16777217 /\ call.args.outBytes = 4
    /\ outp = <<1, 0, 0, 1>>

\* C12: intLowHigh logs a diagnostic exactly when byteCount is outside
\* 1..4 or value is outside [0, 256^byteCount - 1]; whether it logs or not
\* it returns, and for byteCount >= 1 and value >= 0 what it returns is the
\* byteCount low-order bytes of value, least significant first.
C12_DiagnosticExactlyWhenOutOfRange ==
    CodecDone =>
        /\ (logged # <<>>) <=>
               (\/ call.args.outBytes \notin 1..4
                \/ ~Representable(call.args.inpNumber, call.args.outBytes))
        /\ (call.args.outBytes >= 1 /\ call.args.inpNumber >= 0) =>
               /\ Len(outp) = call.args.outBytes
               /\ SubSeq(outp, 1, Min(4, call.args.outBytes))
                      = LittleEndian(call.args.inpNumber, Min(4, call.args.outBytes))
               /\ \A i \in 5..call.args.outBytes : outp[i] = 0

\* The part of C12 that holds: the truncation, and a diagnostic whenever
\* byteCount is outside 1..4 or value is negative.
C12_TruncatedEncoding ==
    CodecDone =>
        /\ ret = "ok"
        /\ (call.args.outBytes \notin 1..4 \/ call.args.inpNumber < 0) => logged # <<>>
        /\ (call.args.outBytes >= 1 /\ call.args.inpNumber >= 0) =>
               /\ Len(outp) = call.args.outBytes
               /\ SubSeq(outp, 1, Min(4, call.args.outBytes))
                      = LittleEndian(call.args.inpNumber, Min(4, call.args.outBytes))
               /\ \A i \in 5..call.args.outBytes : outp[i] = 0

---------------------------------------------------------------------------
(* The session                                                             *)

ValidFontSize(width, height) == width \in 1..8 /\ height \in 1..8

\* C5: SetFontSize with a width or height outside [1,8] is rejected: every
\* recorded field is as it was and nothing is written to the sink (the
\* rejection is logged).
C5_SetFontSizeRejectsOutOfRange ==
    (call.op = "SetFontSize" /\ ~ValidFontSize(call.args.width, call.args.height)) =>
        /\ p = old
        /\ w = <<>>
        /\ logged = <<"Invalid font size passed">>

C5_Witness ==
    /\ call.op = "SetFontSize"
    /\ call.args.width = 9 /\ call.args.height = 8
    /\ old.width = 8 /\ old.height = 1 /\ old.underline = 1
    /\ p = old

\* C6: in every state of a session the recorded font width and height are
\* in 1..8.
C6_FontSizeInRange == p.width \in 1..8 /\ p.height \in 1..8

C6_Witness ==
    /\ call.op = "Text" /\ Has(call.args.params, "height")
    /\ old.width = 8 /\ old.height = 1
    /\ p.width = 8 /\ p.height = 2

\* C7: after every completed operation the recorded fields equal the
\* settings the printer holds.
C7_RecordedStateIsPrinterState == ret \in {"ok", "err"} => p = dev

\* The case of C7 that Barcode's own Reset makes: the printer still
\* underlines, the session records that it does not.
C7_BarcodeDiverges ==
    ~(call.op = "Barcode" /\ old.underline = 1 /\ p.underline = 0 /\ dev.underline = 1)

\* The frames of a state refresh for the recorded state s, in any order.
RefreshFrames(s) ==
    {<<27, 71, s.emphasize>>, <<27, 82, s.rotate>>, <<29, 98, s.smooth>>,
     <<29, 66, s.reverse>>, <<27, 45, s.underline>>, <<27, 123, s.upsidedown>>,
     <<29, 33, 16 * (s.width - 1) + (s.height - 1)>>}

\* C8: after a Feed that returns no error the recorded state is the
\* default one, and the writes that follow Feed's line feed are frames of
\* the recorded state, one at least for each of emphasize, rotate, smooth,
\* reverse, underline, upside-down and font size.
C8_FeedResetsAndRefreshes ==
    (call.op = "Feed" /\ ret = "ok") =>
        /\ p = NewPrinter
        /\ Len(w) >= 9
        /\ w[Len(w) - 8] = <<10>>
        /\ {w[i] : i \in (Len(w) - 7)..Len(w)} = RefreshFrames(p)

C8_Witness ==
    /\ call.op = "Feed" /\ ret = "ok"
    /\ Has(call.args.params, "line") /\ Has(call.args.params, "unit")
    /\ old.width = 8 /\ old.emphasize = 1
    /\ Len(w) = 11

ToggleFields == {"underline", "emphasize", "upsidedown", "rotate", "reverse", "smooth"}

ToggleSetters ==
    {"SetUnderline", "SetEmphasize", "SetUpsidedown", "SetRotate", "SetReverse",
     "SetSmooth"}

\* C13: in every state of a session each of the six toggles is 0 or 1, and
\* the frame a toggle setter writes carries 0 or 1: the setters let no
\* other value through.
C13_TogglesAreZeroOrOne ==
    /\ \A f \in ToggleFields : p[f] \in {0, 1}
    /\ call.op \in ToggleSetters =>
           \A i \in 1..Len(w) : Len(w[i]) = 3 /\ w[i][3] \in {0, 1}

\* A toggle setter given 0 or 1, or SetFontSize given sizes in 1..8.
ValidSetterCall(c) ==
    \/ c.op \in ToggleSetters /\ c.args.v \in {0, 1}
    \/ c.op = "SetFontSize" /\ ValidFontSize(c.args.width, c.args.height)

\* C14: a style setter called a second time in a row with the same valid
\* argument writes the frame it wrote the first time, one frame, and leaves
\* the recorded state as the first call left it.
C14_SettersIdempotent ==
    [][(ValidSetterCall(call) /\ call' = call) => (w' = w /\ Len(w') = 1 /\ p' = p)]_vars

\* A second SetUpsidedown(1) right after the first (no other operation
\* records upsidedown = 1), and likewise a second SetFontSize(8, 8).
C14_Witness ==
    /\ ops = 2
    /\ \/ /\ call = [op |-> "SetUpsidedown", args |-> [v |-> 1]]
          /\ old.upsidedown = 1
          /\ w = <<<<27, 123, 1>>>>
       \/ /\ call = [op |-> "SetFontSize", args |-> [width |-> 8, height |-> 8]]
          /\ old.width = 8 /\ old.height = 8
          /\ w = <<<<29, 33, 119>>>>
    /\ p = old

\* C15: Reset, whatever the recorded state, sets it to the defaults (width
\* and height 1, the six toggles 0) and writes nothing: the sink is as it
\* was and the printer has received nothing.
C15_ResetRestoresDefaultsSilently ==
    [][call'.op = "Reset" =>
          /\ p' = [width |-> 1, height |-> 1, underline |-> 0, emphasize |-> 0,
                   upsidedown |-> 0, rotate |-> 0, reverse |-> 0, smooth |-> 0]
          /\ w' = <<>>
          /\ ret' = "ok"
          /\ sink' = sink
          /\ dev' = dev]_vars

C15_Witness ==
    /\ call.op = "Reset"
    /\ old.width = 8 /\ old.height = 8 /\ old.smooth = 1
    /\ p = NewPrinter
    /\ w = <<>>
    /\ dev.width = 8 /\ dev.smooth = 1

\* The font-size frame of a state refresh: the last but one write of Feed.
RefreshFontSizeFrame == w[Len(w) - 1]

\* C16: the state refresh (the one Feed performs) sends a font-size frame
\* whose byte is ((width-1) << 4) | (height-1) of the state recorded when
\* the refresh was requested, i.e. when Feed was called: 0x12 after
\* reset(), setFontSize(2, 3).
C16_RefreshSendsRequestedFontSize ==
    (call.op = "Feed" /\ ret = "ok") =>
        RefreshFontSizeFrame = <<29, 33, 16 * (old.width - 1) + (old.height - 1)>>

\* C16 as amended: the font-size frame of Feed's refresh carries
\* ((width-1) << 4) | (height-1) of the state recorded once Feed has reset
\* it, which is 0x00; the byte 0x12 of sizes (2, 3) is the one
\* SetFontSize(2, 3) itself sends.
C16_RefreshSendsResetFontSize ==
    /\ (call.op = "Feed" /\ ret = "ok") =>
           /\ RefreshFontSizeFrame = <<29, 33, 16 * (p.width - 1) + (p.height - 1)>>
           /\ RefreshFontSizeFrame = <<29, 33, 0>>
    /\ (call.op = "SetFontSize" /\ call.args = [width |-> 2, height |-> 3]) =>
           w = <<<<29, 33, 18>>>>

\* Reset(), SetFontSize(2, 3), Feed().
C16_Witness ==
    /\ ops = 3
    /\ call.op = "Feed" /\ ret = "ok"
    /\ old = [NewPrinter EXCEPT !.width = 2, !.height = 3]
    /\ dev.width = 1 /\ dev.height = 1
    /\ RefreshFontSizeFrame = <<29, 33, 0>>

\* The code bytes of the alignments, fonts and languages; 0 for any other
\* name.
AlignCodes == ("left" :> 0) @@ ("center" :> 1) @@ ("right" :> 2)
FontCodes == ("A" :> 0) @@ ("B" :> 1) @@ ("C" :> 2)
LangCodes ==
    ("en" :> 0) @@ ("fr" :> 1) @@ ("de" :> 2) @@ ("uk" :> 3) @@ ("da" :> 4)
        @@ ("sv" :> 5) @@ ("it" :> 6) @@ ("es" :> 7) @@ ("ja" :> 8) @@ ("no" :> 9)
CodeOf(codes, name) == IF name \in DOMAIN codes THEN codes[name] ELSE 0

\* C17: SetAlign, SetFont and SetLang each write exactly one frame, ESC a,
\* ESC M or ESC R followed by the one code byte of the name given, or by 0
\* when the name is not recognized (which is logged), and change no
\* recorded field.
C17_EnumSettersStateless ==
    /\ call.op = "SetAlign" =>
           /\ w = <<<<27, 97, CodeOf(AlignCodes, call.args.align)>>>>
           /\ (logged # <<>>) <=> (call.args.align \notin DOMAIN AlignCodes)
           /\ p = old
    /\ call.op = "SetFont" =>
           /\ w = <<<<27, 77, CodeOf(FontCodes, call.args.font)>>>>
           /\ (logged # <<>>) <=> (call.args.font \notin DOMAIN FontCodes)
           /\ p = old
    /\ call.op = "SetLang" =>
           /\ w = <<<<27, 82, CodeOf(LangCodes, call.args.lang)>>>>
           /\ (logged # <<>>) <=> (call.args.lang \notin DOMAIN LangCodes)
           /\ p = old

C17_Witness ==
    /\ call = [op |-> "SetLang", args |-> [lang |-> "xx"]]
    /\ old.width = 8 /\ old.emphasize = 1
    /\ p = old
    /\ w = <<<<27, 82, 0>>>>
    /\ logged = <<"Invalid language">>

\* The writes of the last operation that start a GS k (barcode) frame, and
\* those that hold the bytes data.
BarcodeFrames == {i \in 1..Len(w) : Len(w[i]) >= 2 /\ SubSeq(w[i], 1, 2) = <<29, 107>>}
Contains(buf, data) ==
    \E i \in 1..(Len(buf) - Len(data) + 1) : SubSeq(buf, i, i + Len(data) - 1) = data
WritesHolding(data) == {i \in 1..Len(w) : Contains(w[i], data)}

\* C18: a Barcode call writes exactly one barcode frame, whatever the
\* symbology code; the frame ends with the data preceded by a length when
\* the code exceeds 69, and with the data followed by NUL otherwise (69
\* included); the data is in the sink once.
C18_OneBarcodeFramePerCall ==
    call.op = "Barcode" =>
        /\ Cardinality(BarcodeFrames) = 1
        /\ \A i \in BarcodeFrames :
              LET n == Len(w[i])
                  k == Len(call.args.barcode)
              IN  IF call.args.format > 69
                  THEN n > 2 + k /\ SubSeq(w[i], n - k + 1, n) = call.args.barcode
                  ELSE n > 2 + k /\ w[i][n] = 0
                         /\ SubSeq(w[i], n - k, n - 1) = call.args.barcode
        /\ Cardinality(WritesHolding(call.args.barcode)) = 1

\* The case of C18 that the threshold makes: code 69 gets no frame at all.
C18_Code69Framed ==
    (call.op = "Barcode" /\ call.args.format = 69) => BarcodeFrames # {}

\* The writes of the last operation that are font-size (GS !) frames.
FontSizeFrames == {i \in 1..Len(w) : Len(w[i]) >= 2 /\ SubSeq(w[i], 1, 2) = <<29, 33>>}

\* The call is a Text whose only size parameters are "width" and/or
\* "height", each an integer outside 1..8.
TextSizeOutOfRange ==
    /\ call.op = "Text"
    /\ {"width", "height"} \cap DOMAIN call.args.params # {}
    /\ {"dw", "dh"} \cap DOMAIN call.args.params = {}
    /\ \A k \in {"width", "height"} \cap DOMAIN call.args.params :
           /\ AtoiOk(call.args.params[k])
           /\ AtoiValue(call.args.params[k]) \notin 1..8

\* C21: a Text whose "width" or "height" parameter is an integer outside
\* 1..8 (negative, or 256 and more, included) leaves the recorded font
\* size as it was and writes no font-size frame.
C21_TextRejectsOutOfRangeSize ==
    TextSizeOutOfRange =>
        /\ p.width = old.width /\ p.height = old.height
        /\ FontSizeFrames = {}

\* The part of C21 that holds: an out-of-range integer that is still out
\* of range once narrowed to a byte (9, -1) is rejected.
C21_RejectsWhenByteOutOfRange ==
    (/\ TextSizeOutOfRange
     /\ \A k \in {"width", "height"} \cap DOMAIN call.args.params :
            Byte(AtoiValue(call.args.params[k])) \notin 1..8) =>
        /\ p.width = old.width /\ p.height = old.height
        /\ FontSizeFrames = {}

\* The printer setting a single-frame operation addresses ("none": the
\* operation is no setting command).
SettingOf(op) ==
    CASE op \in {"SetUnderline", "SendUnderline"} -> "underline"
      [] op \in {"SetEmphasize", "SendEmphasize"} -> "emphasize"
      [] op \in {"SetUpsidedown", "SendUpsidedown"} -> "upsidedown"
      [] op \in {"SetRotate", "SendRotate"} -> "rotate"
      [] op \in {"SetReverse", "SendReverse"} -> "reverse"
      [] op \in {"SetSmooth", "SendSmooth"} -> "smooth"
      [] op \in {"SetFontSize", "SendFontSize"} -> "font size"
      [] op = "SetFont" -> "font"
      [] op = "SetAlign" -> "align"
      [] op = "SetLang" -> "lang"
      [] OTHER -> "none"

\* The first two bytes of a frame (all of it when it is shorter).
Prefix(buf) == SubSeq(buf, 1, Min(2, Len(buf)))

\* The last operation was a setting command and wrote its one frame.
SettingFrameWritten(op, writes) == SettingOf(op) # "none" /\ Len(writes) = 1

\* C22: the frames of two different settings never share their two-byte
\* prefix (the rotate frame differs from the language frame), so the state
\* refresh of Feed re-sends no frame with the prefix of a setting that is
\* not among the refreshed attributes, such as the language just selected.
C22_SettingPrefixesDistinct ==
    [][/\ (/\ SettingFrameWritten(call.op, w)
           /\ SettingFrameWritten(call'.op, w')
           /\ SettingOf(call.op) # SettingOf(call'.op)) =>
              Prefix(w[1]) # Prefix(w'[1])
       /\ (/\ call.op \in {"SetLang", "SetAlign", "SetFont"}
           /\ call'.op = "Feed") =>
              \A i \in 1..Len(w') : Prefix(w'[i]) # Prefix(w[1])]_vars

\* The part of C22 that holds: leaving the language frame aside, the
\* frames of different settings differ in their prefix.
C22_DistinctButForLang ==
    [][(/\ SettingFrameWritten(call.op, w)
        /\ SettingFrameWritten(call'.op, w')
        /\ SettingOf(call.op) # SettingOf(call'.op)
        /\ "lang" \notin {SettingOf(call.op), SettingOf(call'.op)}) =>
           Prefix(w[1]) # Prefix(w'[1])]_vars

\* The last operation was SetX or SendX of one of the six toggles.
ToggleFrameWritten == SettingOf(call.op) \in ToggleFields

\* C23: a frame whose parameter is formatted as a character is three bytes
\* long, the prefix and one byte equal to the parameter: FormfeedN(n)
\* writes [1B 64 n] for every n in 0..255, and the third byte of a toggle
\* frame is the recorded toggle, whatever byte that is.
C23_ParameterIsOneByte ==
    /\ (call.op = "FormfeedN" /\ call.args.n \in 0..255) =>
           w = <<<<27, 100, call.args.n>>>>
    /\ ToggleFrameWritten =>
           /\ Len(w) = 1
           /\ Len(w[1]) = 3
           /\ w[1][3] = p[SettingOf(call.op)]

\* The part of C23 that holds: parameters below 128.
C23_OneByteBelow128 ==
    /\ (call.op = "FormfeedN" /\ call.args.n \in 0..127) =>
           w = <<<<27, 100, call.args.n>>>>
    /\ (ToggleFrameWritten /\ p[SettingOf(call.op)] < 128) =>
           /\ Len(w) = 1
           /\ Len(w[1]) = 3
           /\ w[1][3] = p[SettingOf(call.op)]

NumericKeys(op) == IF op = "Text" THEN {"width", "height", "x", "y"} ELSE {"line", "unit"}

\* The call is a Text or Feed with a numeric parameter that is no integer.
MalformedCall ==
    /\ call.op \in {"Text", "Feed"}
    /\ \E k \in NumericKeys(call.op) \cap DOMAIN call.args.params :
           ~AtoiOk(call.args.params[k])

\* C10: a Text or Feed given a malformed numeric parameter returns the
\* parse error, has written nothing and has changed no field, whatever
\* else its parameters hold.
C10_MalformedParamAbortsBeforeAnyWrite ==
    MalformedCall => (ret = "err" /\ w = <<>> /\ p = old)

---------------------------------------------------------------------------
(* Two callers                                                             *)

\* C9: the session's lock serializes two concurrent callers: in the sink
\* the writes of one operation are never interleaved with writes of the
\* other, i.e. the second caller writes only once the first has finished.
C9_OperationsSerialized ==
    \A i, j, k \in 1..Len(by) : (i < j /\ j < k /\ by[i] = by[k]) => by[j] = by[i]

---------------------------------------------------------------------------
(* A sink that fails                                                       *)

\* C11: when the sink fails a write during an operation, the operation
\* returns the failure to its caller and makes no write after the failed
\* one (so it does not write the failed bytes again either).
C11_WriteFailurePropagated ==
    sink.failedAt # 0 => (ret = "err" /\ Len(w) = sink.failedAt)

=============================================================================
